---------------------------- MODULE Spec2Model ----------------------------
(***************************************************************************)
(* Camera and SDF-primitive state of the ShapeStormer renderer             *)
(* (src/src/camera.rs, src/src/primitives.rs).                             *)
(*                                                                         *)
(* Numbers.  The program computes in f32.  The model computes in fixed     *)
(* point over the integers:                                                *)
(*   - lengths and matrix entries in 1/Unit,                               *)
(*   - sines, cosines and unit-vector components in 1/TrigUnit, fine       *)
(*     enough that cos(SAFE_FRAC_PI_2) is not zero,                        *)
(*   - angles in 1/AngleUnit radian (so the 0.0001 margin of               *)
(*     SAFE_FRAC_PI_2 is exactly one angle step),                          *)
(*   - the scroll scalar in halves (ScrollUnit), which makes the 0.5 of    *)
(*     process_scroll exact,                                               *)
(*   - durations in milliseconds,                                          *)
(*   - primitive parameters in 1/PrimUnit.                                 *)
(* Every product is rounded to the nearest step (Rnd).  Inputs are finite  *)
(* and small; infinities and NaN are outside the model.                    *)
(***************************************************************************)
EXTENDS Integers, Sequences, FiniteSets, TLC

VARIABLES
    camera,        \* RenderCamera.camera: [position, yaw, pitch]
    projection,    \* RenderCamera.projection: [pixels, fovy, znear, zfar]
    controller,    \* RenderCamera.controller: the CameraController fields
    uniform,       \* RenderCamera.uniform: the CPU-side CameraUniform
    buffer,        \* RenderCamera.buffer: the words held by the GPU buffer
    held,          \* the bound keys physically down (the keyboard, outside the program)
    last,          \* the call made last: [op, key, state, x, y, ret]
    quiet,         \* update calls made since the last input event
    mouse_calls,   \* process_mouse calls made since the last update
    steps,         \* calls made so far
    primitives,    \* PrimitiveManager.primitives
    prim_buffer,   \* PrimitiveManager.buffer: the words held by the GPU buffer
    capacity,      \* primitive_count given to PrimitiveManager::new
    crashed        \* the GPU service rejected a write (wgpu validation panic)

vars == <<camera, projection, controller, uniform, buffer, held, last, quiet,
          mouse_calls, steps, primitives, prim_buffer, capacity, crashed>>

primVars == <<primitives, prim_buffer, capacity, crashed>>

---------------------------------------------------------------------------
(* Bounds of the exploration. *)

MaxSteps == 4

MaxCount == 2

(* Fixed-point steps. *)

Unit == 1000

TrigUnit == 10000

\* milliseconds per second; a length step is 1/Unit = 1/MsPerSec, so a speed
\* in units per second times a duration in milliseconds is a length in steps
MsPerSec == 1000

AngleUnit == 10000

ScrollUnit == 2

PrimUnit == 1000000

---------------------------------------------------------------------------
(* Fixed-point arithmetic. *)

Abs(x) == IF x < 0 THEN -x ELSE x

Sgn(x) == IF x < 0 THEN -1 ELSE 1

\* a / b rounded to the nearest integer, halves away from zero (b > 0).
Rnd(a, b) == Sgn(a) * ((2 * Abs(a) + b) \div (2 * b))

RECURSIVE SqrtIter(_, _, _)
SqrtIter(n, lo, hi) ==
    IF lo >= hi THEN lo
    ELSE LET mid == (lo + hi + 1) \div 2
         IN  IF mid * mid <= n THEN SqrtIter(n, mid, hi)
                               ELSE SqrtIter(n, lo, mid - 1)

\* floor(sqrt(n)) for 0 <= n < 2^30
ISqrt(n) == SqrtIter(n, 0, 32767)

RECURSIVE Ulp(_)
Ulp(m) == IF m < 16777216 THEN 1 ELSE 2 * Ulp(m \div 2)

\* `x as f32` on an integer-valued f64: exact up to 2^24, beyond that
\* rounded to 24 significant bits, ties to even.
F32(n) ==
    LET m == Abs(n)
        u == Ulp(m)
        q == m \div u
        r == m % u
        up == (2 * r > u) \/ (2 * r = u /\ q % 2 = 1)
    IN  Sgn(n) * (IF up THEN q + 1 ELSE q) * u

\* pi and pi/2 in angle steps (std::f32::consts::FRAC_PI_2 = 1.5707964)
PI == 31416

FRAC_PI_2 == 15708

\* TrigUnit * sin(x) for x in [0, pi], x in angle steps: Bhaskara's rational
\* approximation 4p / (5 pi^2 / 4 - p) with p = x (pi - x), the denominator
\* divided first to stay within 32 bits.
SinHalfTurn(x) ==
    LET p == x * (PI - x)
        d == ((5 * (PI \div 2) * (PI \div 2)) - p) \div TrigUnit
    IN  IF p <= 0 THEN 0 ELSE (4 * p) \div d

\* f32::sin_cos, in 1/TrigUnit.
Sin(a) ==
    LET r == a % (2 * PI)
    IN  IF r <= PI THEN SinHalfTurn(r) ELSE -SinHalfTurn(r - PI)

Cos(a) == Sin(a + FRAC_PI_2)

---------------------------------------------------------------------------
(* Vectors (sequences of 3) and 4x4 matrices (sequences of 4 columns). *)

VAdd(v, w) == <<v[1] + w[1], v[2] + w[2], v[3] + w[3]>>

VNeg(v) == <<-v[1], -v[2], -v[3]>>

\* dot product of a point or vector (in 1/Unit) with a unit vector
Dot(v, w) == Rnd(v[1] * w[1] + v[2] * w[2] + v[3] * w[3], TrigUnit)

\* cross product of two unit vectors
Cross(v, w) ==
    << Rnd(v[2] * w[3] - v[3] * w[2], TrigUnit),
       Rnd(v[3] * w[1] - v[1] * w[3], TrigUnit),
       Rnd(v[1] * w[2] - v[2] * w[1], TrigUnit) >>

Max(a, b) == IF a >= b THEN a ELSE b

\* v * k for a scalar k
Scale(v, k) == <<v[1] * k, v[2] * k, v[3] * k>>

\* InnerSpace::magnitude of a vector within 15 bits
Magnitude(w) == ISqrt(w[1] * w[1] + w[2] * w[2] + w[3] * w[3])

\* w / len as a unit vector in 1/TrigUnit
Divide(w, len) ==
    << Rnd(w[1] * TrigUnit, len), Rnd(w[2] * TrigUnit, len),
       Rnd(w[3] * TrigUnit, len) >>

\* InnerSpace::normalize: v / |v|, a unit vector in 1/TrigUnit. A float
\* keeps its relative precision however short v is; here a short v is
\* scaled up before its length is taken.
Normalize(v) ==
    LET m == Max(Max(Abs(v[1]), Abs(v[2])), Max(Abs(v[3]), 1))
        w == Scale(v, Max(TrigUnit \div m, 1))
    IN  Divide(w, Magnitude(w))

\* a unit-vector component as a matrix entry
Entry(x) == Rnd(x * Unit, TrigUnit)

\* Matrix4 product; m[c][r] is the entry of column c, row r.
MatMul(m, n) ==
    [c \in 1..4 |->
        [r \in 1..4 |->
            Rnd(m[1][r] * n[c][1] + m[2][r] * n[c][2]
                + m[3][r] * n[c][3] + m[4][r] * n[c][4], Unit)]]

Identity == << <<Unit, 0, 0, 0>>, <<0, Unit, 0, 0>>,
               <<0, 0, Unit, 0>>, <<0, 0, 0, Unit>> >>

\* the view matrix of the right-handed basis s, u, -f seen from eye
ViewMatrix(eye, f, s, u) ==
    << <<Entry(s[1]), Entry(u[1]), -Entry(f[1]), 0>>,
       <<Entry(s[2]), Entry(u[2]), -Entry(f[2]), 0>>,
       <<Entry(s[3]), Entry(u[3]), -Entry(f[3]), 0>>,
       <<-Dot(eye, s), -Dot(eye, u), Dot(eye, f), Unit>> >>

\* Matrix4::look_to_rh(eye, dir, up)
LookToRh(eye, dir, up) ==
    LET f == Normalize(dir)
        s == Normalize(Cross(f, up))
    IN  ViewMatrix(eye, f, s, Cross(s, f))

UnitY == <<0, TrigUnit, 0>>

---------------------------------------------------------------------------
(* Camera (camera.rs 19-60). *)

\* Camera::calc_matrix
Camera_calc_matrix(cam) ==
    LET sin_pitch == Sin(cam.pitch)
        cos_pitch == Cos(cam.pitch)
        sin_yaw   == Sin(cam.yaw)
        cos_yaw   == Cos(cam.yaw)
    IN  LookToRh(cam.position,
                 Normalize(<<Rnd(cos_pitch * cos_yaw, TrigUnit), sin_pitch,
                             Rnd(cos_pitch * sin_yaw, TrigUnit)>>),
                 UnitY)

\* Angle::opposite: the angle rotated by half a turn, normalized to [0, 2 pi)
Opposite(a) == (a + PI) % (2 * PI)

\* Camera::calc_inverse_matrix
Camera_calc_inverse_matrix(cam) ==
    LET sin_pitch == Sin(Opposite(cam.pitch))
        cos_pitch == Cos(Opposite(cam.pitch))
        sin_yaw   == Sin(Opposite(cam.yaw))
        cos_yaw   == Cos(Opposite(cam.yaw))
    IN  LookToRh(VNeg(cam.position),
                 Normalize(<<Rnd(cos_pitch * cos_yaw, TrigUnit), sin_pitch,
                             Rnd(cos_pitch * sin_yaw, TrigUnit)>>),
                 UnitY)

---------------------------------------------------------------------------
(* Projection (camera.rs 62-93). *)

\* Projection::new
Projection_new(width, height, fovy, znear, zfar) ==
    [pixels |-> <<width, height>>, fovy |-> fovy, znear |-> znear, zfar |-> zfar]

\* Projection::resize
Projection_resize(proj, width, height) ==
    [proj EXCEPT !.pixels = <<width, height>>]

\* Projection::calc_matrix: perspective(fovy, aspect, znear, zfar)
Projection_calc_matrix(proj) ==
    LET aspect == Rnd(proj.pixels[1] * Unit, proj.pixels[2])
        half   == proj.fovy \div 2
        f      == Rnd(Cos(half) * Unit, Sin(half))   \* cot(fovy / 2)
        nf     == proj.zfar - proj.znear
    IN  << <<Rnd(f * Unit, aspect), 0, 0, 0>>,
           <<0, f, 0, 0>>,
           <<0, 0, -Rnd((proj.zfar + proj.znear) * Unit, nf), -Unit>>,
           <<0, 0, -Rnd(2 * proj.zfar * proj.znear, nf), 0>> >>

\* Matrix4::invert on a perspective matrix (entries a, b on the diagonal,
\* c, d in the lower right block); the caller unwraps the result, which
\* exists for every viewport with positive width and height.
InvertPerspective(m) ==
    LET a == m[1][1]
        b == m[2][2]
        c == m[3][3]
        d == m[4][3]
    IN  << <<Rnd(Unit * Unit, a), 0, 0, 0>>,
           <<0, Rnd(Unit * Unit, b), 0, 0>>,
           <<0, 0, 0, Sgn(d) * Rnd(Unit * Unit, Abs(d))>>,
           <<0, 0, -Unit, Sgn(d) * Rnd(c * Unit, Abs(d))>> >>

---------------------------------------------------------------------------
(* CameraController (camera.rs 95-216). *)

Pressed == "Pressed"

Released == "Released"

\* CameraController::new
CameraController_new(speed_num, sens_num, sens_den) ==
    [amount_left |-> 0, amount_right |-> 0, amount_forward |-> 0,
     amount_backward |-> 0, amount_up |-> 0, amount_down |-> 0,
     rotate_horizontal |-> 0, rotate_vertical |-> 0, scroll |-> 0,
     speed |-> speed_num, sens_num |-> sens_num, sens_den |-> sens_den]

\* process_keyboard with the Down arrow bound to "down" instead of "backward"
process_keyboard_down_arrow(c, key, state) ==
    LET amount == IF state = Pressed THEN 1 ELSE 0
    IN  CASE key \in {"W", "Up"} ->
               [controller |-> [c EXCEPT !.amount_forward = amount], ret |-> TRUE]
          [] key = "S" ->
               [controller |-> [c EXCEPT !.amount_backward = amount], ret |-> TRUE]
          [] key \in {"A", "Left"} ->
               [controller |-> [c EXCEPT !.amount_left = amount], ret |-> TRUE]
          [] key \in {"D", "Right"} ->
               [controller |-> [c EXCEPT !.amount_right = amount], ret |-> TRUE]
          [] key = "Space" ->
               [controller |-> [c EXCEPT !.amount_up = amount], ret |-> TRUE]
          [] key \in {"LShift", "Down"} ->
               [controller |-> [c EXCEPT !.amount_down = amount], ret |-> TRUE]
          [] OTHER ->
               [controller |-> c, ret |-> FALSE]

\* process_keyboard that keeps "forward" at 1.0 while another forward key
\* is still down
process_keyboard_counting(c, key, state) ==
    LET others == (held \ {key}) \cap {"W", "Up"}
        amount == IF state = Pressed \/ others # {} THEN 1 ELSE 0
    IN  CASE key \in {"W", "Up"} ->
               [controller |-> [c EXCEPT !.amount_forward = amount], ret |-> TRUE]
          [] key \in {"S", "Down"} ->
               [controller |-> [c EXCEPT !.amount_backward = IF state = Pressed THEN 1 ELSE 0],
                ret |-> TRUE]
          [] key \in {"A", "Left"} ->
               [controller |-> [c EXCEPT !.amount_left = IF state = Pressed THEN 1 ELSE 0],
                ret |-> TRUE]
          [] key \in {"D", "Right"} ->
               [controller |-> [c EXCEPT !.amount_right = IF state = Pressed THEN 1 ELSE 0],
                ret |-> TRUE]
          [] key = "Space" ->
               [controller |-> [c EXCEPT !.amount_up = IF state = Pressed THEN 1 ELSE 0],
                ret |-> TRUE]
          [] key = "LShift" ->
               [controller |-> [c EXCEPT !.amount_down = IF state = Pressed THEN 1 ELSE 0],
                ret |-> TRUE]
          [] OTHER ->
               [controller |-> c, ret |-> FALSE]

\* CameraController::process_keyboard: the controller after the call and
\* the value returned
process_keyboard(c, key, state) ==
    LET amount == IF state = Pressed THEN 1 ELSE 0
    IN  CASE key \in {"W", "Up"} ->
               [controller |-> [c EXCEPT !.amount_forward = amount], ret |-> TRUE]
          [] key \in {"S", "Down"} ->
               [controller |-> [c EXCEPT !.amount_backward = amount], ret |-> TRUE]
          [] key \in {"A", "Left"} ->
               [controller |-> [c EXCEPT !.amount_left = amount], ret |-> TRUE]
          [] key \in {"D", "Right"} ->
               [controller |-> [c EXCEPT !.amount_right = amount], ret |-> TRUE]
          [] key = "Space" ->
               [controller |-> [c EXCEPT !.amount_up = amount], ret |-> TRUE]
          [] key = "LShift" ->
               [controller |-> [c EXCEPT !.amount_down = amount], ret |-> TRUE]
          [] OTHER ->
               [controller |-> c, ret |-> FALSE]

\* process_mouse that adds the delta to the stored one
process_mouse_accumulating(c, mouse_dx, mouse_dy) ==
    [c EXCEPT !.rotate_horizontal = @ + F32(mouse_dx),
              !.rotate_vertical   = @ + F32(mouse_dy)]

\* CameraController::process_mouse
process_mouse(c, mouse_dx, mouse_dy) ==
    [c EXCEPT !.rotate_horizontal = F32(mouse_dx),
              !.rotate_vertical   = F32(mouse_dy)]

\* CameraController::process_scroll; delta is [kind, amount] with kind
\* "LineDelta" (amount: the f32 line count) or "PixelDelta" (amount: the
\* f64 y of the position). The result is in 1/ScrollUnit.
process_scroll(c, delta) ==
    [c EXCEPT !.scroll =
        IF delta.kind = "LineDelta"
        THEN Rnd(-delta.amount * ScrollUnit, 2)
        ELSE F32(-delta.amount) * ScrollUnit]

\* v * k * speed * dt for a unit vector v: a displacement in 1/Unit
Step(v, k, c, dt) ==
    << Rnd(v[1] * k * c.speed * dt, TrigUnit),
       Rnd(v[2] * k * c.speed * dt, TrigUnit),
       Rnd(v[3] * k * c.speed * dt, TrigUnit) >>

\* camera.rs 179-183: the forward/backward and left/right displacement
PlanarStep(cam, c, dt) ==
    LET yaw_sin == Sin(cam.yaw)
        yaw_cos == Cos(cam.yaw)
        forward == Normalize(<<yaw_cos, 0, yaw_sin>>)
        right   == Normalize(<<-yaw_sin, 0, yaw_cos>>)
    IN  VAdd(Step(forward, c.amount_forward - c.amount_backward, c, dt),
             Step(right, c.amount_right - c.amount_left, c, dt))

\* camera.rs 189-192: the displacement along the pitch-aware view direction
ScrollStep(cam, c, dt) ==
    LET yaw_sin   == Sin(cam.yaw)
        yaw_cos   == Cos(cam.yaw)
        pitch_sin == Sin(cam.pitch)
        pitch_cos == Cos(cam.pitch)
        scrollward == Normalize(<<Rnd(pitch_cos * yaw_cos, TrigUnit), pitch_sin,
                                  Rnd(pitch_cos * yaw_sin, TrigUnit)>>)
        k == c.scroll * c.speed * c.sens_num * dt
        q == ScrollUnit * c.sens_den * TrigUnit
    IN  << Rnd(scrollward[1] * k, q), Rnd(scrollward[2] * k, q),
           Rnd(scrollward[3] * k, q) >>

\* camera.rs 197: the up/down displacement
VerticalStep(c, dt) == <<0, (c.amount_up - c.amount_down) * c.speed * dt, 0>>

\* Rad(r) * sensitivity * dt in angle steps
Turn(r, c, dt) == Rnd(r * c.sens_num * dt * (AngleUnit \div MsPerSec), c.sens_den)

\* -Rad(SAFE_FRAC_PI_2) and Rad(SAFE_FRAC_PI_2): camera.rs 17
SAFE_FRAC_PI_2 == FRAC_PI_2 - 1

\* the clamp without its upper branch
ClampPitch_lower_only(p) ==
    IF p < -SAFE_FRAC_PI_2 THEN -SAFE_FRAC_PI_2 ELSE p

\* camera.rs 210-214
ClampPitch(p) ==
    IF p < -SAFE_FRAC_PI_2 THEN -SAFE_FRAC_PI_2
    ELSE IF p > SAFE_FRAC_PI_2 THEN SAFE_FRAC_PI_2
    ELSE p

\* update_camera that consumes the directional accumulators as it does scroll
update_camera_consuming(c, cam, dt) ==
    LET moved == VAdd(VAdd(VAdd(cam.position, PlanarStep(cam, c, dt)),
                           ScrollStep(cam, c, dt)),
                      VerticalStep(c, dt))
        yaw   == cam.yaw + Turn(c.rotate_horizontal, c, dt)
        pitch == cam.pitch + Turn(-c.rotate_vertical, c, dt)
    IN  [camera |-> [position |-> moved, yaw |-> yaw, pitch |-> ClampPitch(pitch)],
         controller |-> [c EXCEPT !.scroll = 0,
                                  !.rotate_horizontal = 0,
                                  !.rotate_vertical = 0,
                                  !.amount_forward = 0, !.amount_backward = 0,
                                  !.amount_left = 0, !.amount_right = 0,
                                  !.amount_up = 0, !.amount_down = 0]]

\* update_camera without the reset of the rotation deltas
update_camera_keeps_rotation(c, cam, dt) ==
    LET moved == VAdd(VAdd(VAdd(cam.position, PlanarStep(cam, c, dt)),
                           ScrollStep(cam, c, dt)),
                      VerticalStep(c, dt))
        yaw   == cam.yaw + Turn(c.rotate_horizontal, c, dt)
        pitch == cam.pitch + Turn(-c.rotate_vertical, c, dt)
    IN  [camera |-> [position |-> moved, yaw |-> yaw, pitch |-> ClampPitch(pitch)],
         controller |-> [c EXCEPT !.scroll = 0]]

\* CameraController::update_camera: the camera and the controller after
\* the call; dt in milliseconds
update_camera(c, cam, dt) ==
    LET moved == VAdd(VAdd(VAdd(cam.position, PlanarStep(cam, c, dt)),
                           ScrollStep(cam, c, dt)),
                      VerticalStep(c, dt))
        yaw   == cam.yaw + Turn(c.rotate_horizontal, c, dt)
        pitch == cam.pitch + Turn(-c.rotate_vertical, c, dt)
    IN  [camera |-> [position |-> moved, yaw |-> yaw, pitch |-> ClampPitch(pitch)],
         controller |-> [c EXCEPT !.scroll = 0,
                                  !.rotate_horizontal = 0,
                                  !.rotate_vertical = 0]]

---------------------------------------------------------------------------
(* CameraUniform (camera.rs 220-249). *)

\* CameraUniform::new
CameraUniform_new ==
    [view_position |-> <<0, 0, 0, 0>>,
     world_to_screen |-> Identity,
     screen_to_world |-> Identity]

\* CameraUniform::update_view_proj
update_view_proj(cam, proj) ==
    LET p            == Projection_calc_matrix(proj)
        world_to_cam == Camera_calc_matrix(cam)
    IN  [view_position |-> <<cam.position[1], cam.position[2], cam.position[3], Unit>>,
         world_to_screen |-> MatMul(p, world_to_cam),
         screen_to_world |-> MatMul(Camera_calc_inverse_matrix(cam),
                                    InvertPerspective(p))]

\* bytemuck::cast_slice(&[uniform]): the 36 words of the #[repr(C)] struct,
\* in field order, each matrix column by column
CastUniform(u) ==
    u.view_position
    \o u.world_to_screen[1] \o u.world_to_screen[2]
    \o u.world_to_screen[3] \o u.world_to_screen[4]
    \o u.screen_to_world[1] \o u.screen_to_world[2]
    \o u.screen_to_world[3] \o u.screen_to_world[4]

\* Queue::write_buffer(buffer, offset, data), offset and lengths in words:
\* the words from offset on are overwritten by data; a write that would
\* overrun the buffer is refused (a wgpu validation error) and writes nothing
WriteBuffer(buf, offset, data) ==
    IF offset + Len(data) > Len(buf)
    THEN [ok |-> FALSE, buffer |-> buf]
    ELSE [ok |-> TRUE,
          buffer |-> [i \in 1..Len(buf) |->
                        IF i > offset /\ i <= offset + Len(data)
                        THEN data[i - offset] ELSE buf[i]]]

---------------------------------------------------------------------------
(* RenderCamera (camera.rs 251-323); rc is the record of its fields. *)

\* the viewport the render loop constructs the camera with
InitViewport == <<800, 600>>

\* RenderCamera::new
RenderCamera_new(width, height) ==
    LET cam  == [position |-> <<0, 5 * Unit, 10 * Unit>>,
                 yaw |-> -FRAC_PI_2, pitch |-> -3491]
        proj == Projection_new(width, height, 7854, 100, 100 * Unit)
        ctl  == CameraController_new(4, 2, 5)
        u    == update_view_proj(cam, proj)
    IN  [camera |-> cam, projection |-> proj, controller |-> ctl,
         uniform |-> u, buffer |-> CastUniform(u)]

\* RenderCamera::update_conroller
update_conroller(rc, dt) ==
    LET r == update_camera(rc.controller, rc.camera, dt)
    IN  [rc EXCEPT !.camera = r.camera, !.controller = r.controller]

\* RenderCamera::update_uniform
update_uniform(rc) ==
    LET u == update_view_proj(rc.camera, rc.projection)
    IN  [rc EXCEPT !.uniform = u,
                   !.buffer = WriteBuffer(rc.buffer, 0, CastUniform(u)).buffer]

\* update with its two calls in the other order
RenderCamera_update_uniform_first(rc, dt) == update_conroller(update_uniform(rc), dt)

\* RenderCamera::update
RenderCamera_update(rc, dt) == update_uniform(update_conroller(rc, dt))

\* resize that recomputes and uploads the uniform at once
RenderCamera_resize_eager(rc, width, height) ==
    update_uniform([rc EXCEPT !.projection = Projection_resize(rc.projection, width, height)])

\* RenderCamera::resize
RenderCamera_resize(rc, width, height) ==
    [rc EXCEPT !.projection = Projection_resize(rc.projection, width, height)]

---------------------------------------------------------------------------
(* Inputs. *)

\* VirtualKeyCode: the ten keys process_keyboard matches, the right Shift
\* key and one key without a binding
RecognizedKeys ==
    {"W", "Up", "S", "Down", "A", "Left", "D", "Right", "Space", "LShift"}

Keys == RecognizedKeys \cup {"RShift", "Q"}

\* the keys pressed while the camera is driven
DriveKeys == {"W", "Up", "S", "A", "D", "Space", "LShift"}

\* raw pointer deltas (pixels)
MouseDeltas == { <<3, 2>>, <<-1, 4>>, <<0, -20000>>, <<0, 20000>> }

ScrollDeltas ==
    { [kind |-> "LineDelta", amount |-> 3],
      [kind |-> "PixelDelta", amount |-> -2] }

\* frame times (ms)
FrameTimes == {0, 250}

Viewports == { <<400, 300>>, <<1280, 720>> }

---------------------------------------------------------------------------
(* The camera as the render loop drives it. *)

RC == [camera |-> camera, projection |-> projection, controller |-> controller,
       uniform |-> uniform, buffer |-> buffer]

SetRC(rc) ==
    /\ camera' = rc.camera
    /\ projection' = rc.projection
    /\ controller' = rc.controller
    /\ uniform' = rc.uniform
    /\ buffer' = rc.buffer

\* a call: its name, its key and state or variant name (strings, "" when it
\* has none), its numbers (0 when it has none) and the value it returned
Call(op, key, state, x, y, ret) ==
    [op |-> op, key |-> key, state |-> state, x |-> x, y |-> y, ret |-> ret]

---------------------------------------------------------------------------
(* SDFPrimitive and PrimitiveManager (primitives.rs). *)

\* SDFPrimitive::new
SDFPrimitive_new ==
    [position |-> <<0, 0, 0>>, pad1 |-> 0,
     rotation |-> <<0, 0, 0, PrimUnit>>,
     data |-> <<PrimUnit \div 10, PrimUnit \div 10, PrimUnit \div 10, PrimUnit \div 10>>,
     instances |-> <<1, 1, 1>>, pad2 |-> 0,
     rgba |-> <<PrimUnit, PrimUnit, PrimUnit, PrimUnit>>,
     typus |-> 0, pad3 |-> <<0, 0, 0>>]

\* a 4-byte word of a buffer: an f32 or a u32
F(v) == <<"f32", v>>

U(v) == <<"u32", v>>

\* the 24 words of one #[repr(C)] SDFPrimitive, in field order
CastPrimitive(p) ==
    << F(p.position[1]), F(p.position[2]), F(p.position[3]), F(p.pad1),
       F(p.rotation[1]), F(p.rotation[2]), F(p.rotation[3]), F(p.rotation[4]),
       F(p.data[1]), F(p.data[2]), F(p.data[3]), F(p.data[4]),
       U(p.instances[1]), U(p.instances[2]), U(p.instances[3]), F(p.pad2),
       F(p.rgba[1]), F(p.rgba[2]), F(p.rgba[3]), F(p.rgba[4]),
       U(p.typus), F(p.pad3[1]), F(p.pad3[2]), F(p.pad3[3]) >>

RECURSIVE CastSlice(_)
\* bytemuck::cast_slice(&primitives)
CastSlice(ps) ==
    IF ps = <<>> THEN <<>> ELSE CastPrimitive(Head(ps)) \o CastSlice(Tail(ps))

\* vec![SDFPrimitive::new(); primitive_count]
Fresh(primitive_count) == [i \in 1..primitive_count |-> SDFPrimitive_new]

\* mk_primitive_bind_group: the buffer created with its initial content
mk_primitive_bind_group(primitive_count) == CastSlice(Fresh(primitive_count))

\* PrimitiveManager::new
PrimitiveManager_new(primitive_count) ==
    [primitives |-> Fresh(primitive_count),
     buffer |-> mk_primitive_bind_group(primitive_count)]

\* the closure PrimitiveManager::update builds (primitives.rs 73-83)
updater(ps, dt) ==
    [i \in 1..Len(ps) |->
        [ps[i] EXCEPT !.data = << @[1] + 2 * dt, @[2] + dt, @[3] + dt,
                                  2 * (PrimUnit \div 1000) >>,
                      !.rgba = << @[1] - 10 * dt, @[2], @[3], @[4] >>]]

\* Closures a caller may hand to update_primitives: any Fn(&mut Vec<SDFPrimitive>).
\* "builtin" is update's own closure, "retype" edits the elements in place,
\* "push" and "pop" use the Vec they are given.
Mutators ==
    { [kind |-> "retype"], [kind |-> "push"], [kind |-> "pop"] }

ApplyMutator(m, ps) ==
    CASE m.kind = "builtin" -> updater(ps, m.dt)
      [] m.kind = "retype" ->
           [i \in 1..Len(ps) |-> [ps[i] EXCEPT !.typus = (@ + i) % 3]]
      [] m.kind = "push" -> Append(ps, SDFPrimitive_new)
      [] m.kind = "pop" -> IF ps = <<>> THEN ps ELSE SubSeq(ps, 1, Len(ps) - 1)

\* PrimitiveManager::update_primitives: the manager after the call, and
\* whether the GPU service accepted the write
update_primitives(pm, primitive_updater) ==
    LET ps == ApplyMutator(primitive_updater, pm.primitives)
        w  == WriteBuffer(pm.buffer, 0, CastSlice(ps))
    IN  [primitives |-> ps, buffer |-> w.buffer, ok |-> w.ok]

\* PrimitiveManager::update
PrimitiveManager_update(pm, dt) ==
    update_primitives(pm, [kind |-> "builtin", dt |-> dt])

---------------------------------------------------------------------------
(* Initial states and steps. *)

InitRC(rc) ==
    /\ camera = rc.camera
    /\ projection = rc.projection
    /\ controller = rc.controller
    /\ uniform = rc.uniform
    /\ buffer = rc.buffer

InitCameraVars ==
    /\ InitRC(RenderCamera_new(InitViewport[1], InitViewport[2]))
    /\ held = {}
    /\ last = Call("new", "", "", 0, 0, FALSE)
    /\ quiet = 0
    /\ mouse_calls = 0
    /\ steps = 0

InitPrimVars(count) ==
    LET pm == PrimitiveManager_new(count)
    IN  /\ primitives = pm.primitives
        /\ prim_buffer = pm.buffer
        /\ capacity = count
        /\ crashed = FALSE

Init == InitCameraVars /\ InitPrimVars(1)

InitPrimitives == InitCameraVars /\ \E count \in 1..MaxCount : InitPrimVars(count)

Input(call) ==
    /\ steps < MaxSteps
    /\ steps' = steps + 1
    /\ last' = call
    /\ quiet' = 0

\* the event loop forwards a key event to controller.process_keyboard
KeyboardEvent(K) ==
    \E key \in K, state \in {Pressed, Released} :
        LET r == process_keyboard(controller, key, state)
        IN  /\ Input(Call("process_keyboard", key, state, 0, 0, r.ret))
            /\ controller' = r.controller
            /\ held' = IF key \notin RecognizedKeys THEN held
                       ELSE IF state = Pressed THEN held \cup {key} ELSE held \ {key}
            /\ UNCHANGED <<camera, projection, uniform, buffer, mouse_calls, primVars>>

\* ... a pointer motion to controller.process_mouse
MouseEvent ==
    \E d \in MouseDeltas :
        /\ Input(Call("process_mouse", "", "", d[1], d[2], FALSE))
        /\ controller' = process_mouse(controller, d[1], d[2])
        /\ mouse_calls' = IF mouse_calls < 2 THEN mouse_calls + 1 ELSE 2
        /\ UNCHANGED <<camera, projection, uniform, buffer, held, primVars>>

\* ... a wheel event to controller.process_scroll
ScrollEvent ==
    \E d \in ScrollDeltas :
        /\ Input(Call("process_scroll", d.kind, "", d.amount, 0, FALSE))
        /\ controller' = process_scroll(controller, d)
        /\ UNCHANGED <<camera, projection, uniform, buffer, held, mouse_calls, primVars>>

\* ... a window resize to RenderCamera::resize
Resize ==
    \E v \in Viewports :
        /\ Input(Call("resize", "", "", v[1], v[2], FALSE))
        /\ SetRC(RenderCamera_resize(RC, v[1], v[2]))
        /\ UNCHANGED <<held, mouse_calls, primVars>>

\* once per frame the render loop calls RenderCamera::update
Update ==
    \E dt \in FrameTimes :
        /\ steps < MaxSteps
        /\ steps' = steps + 1
        /\ last' = Call("update", "", "", dt, mouse_calls, FALSE)
        /\ quiet' = IF quiet < 2 THEN quiet + 1 ELSE 2
        /\ mouse_calls' = 0
        /\ SetRC(RenderCamera_update(RC, dt))
        /\ UNCHANGED <<held, primVars>>

Next ==
    \/ KeyboardEvent(DriveKeys)
    \/ MouseEvent
    \/ ScrollEvent
    \/ Resize
    \/ Update

Spec == Init /\ [][Next]_vars

\* the input handlers and the frame update, with every key of the keyboard
NextKeyboard ==
    \/ KeyboardEvent(Keys)
    \/ MouseEvent
    \/ ScrollEvent
    \/ Update

SpecKeyboard == Init /\ [][NextKeyboard]_vars

\* the render loop hands a closure to PrimitiveManager::update_primitives
UpdatePrimitives ==
    \E m \in Mutators :
        LET pm == update_primitives([primitives |-> primitives, buffer |-> prim_buffer], m)
        IN  /\ ~crashed
            /\ steps < MaxSteps
            /\ steps' = steps + 1
            /\ last' = Call("update_primitives", m.kind, "", 0, 0, FALSE)
            /\ primitives' = pm.primitives
            /\ crashed' = ~pm.ok
            /\ prim_buffer' = pm.buffer
            /\ UNCHANGED <<camera, projection, controller, uniform, buffer, held,
                           quiet, mouse_calls, capacity>>

\* once per frame the render loop calls PrimitiveManager::update
UpdatePrimitiveManager ==
    \E dt \in FrameTimes :
        LET pm == PrimitiveManager_update([primitives |-> primitives, buffer |-> prim_buffer], dt)
        IN  /\ ~crashed
            /\ steps < MaxSteps
            /\ steps' = steps + 1
            /\ last' = Call("primitives_update", "", "", dt, 0, FALSE)
            /\ primitives' = pm.primitives
            /\ crashed' = ~pm.ok
            /\ prim_buffer' = pm.buffer
            /\ UNCHANGED <<camera, projection, controller, uniform, buffer, held,
                           quiet, mouse_calls, capacity>>

NextPrimitives ==
    \/ UpdatePrimitives
    \/ UpdatePrimitiveManager

SpecPrimitives == InitPrimitives /\ [][NextPrimitives]_vars

---------------------------------------------------------------------------
(* Vocabulary of the properties. *)

Directions == {"amount_forward", "amount_backward", "amount_left",
               "amount_right", "amount_up", "amount_down"}

Opp(d) ==
    CASE d = "amount_forward"  -> "amount_backward"
      [] d = "amount_backward" -> "amount_forward"
      [] d = "amount_left"     -> "amount_right"
      [] d = "amount_right"    -> "amount_left"
      [] d = "amount_up"       -> "amount_down"
      [] d = "amount_down"     -> "amount_up"

\* the keys bound to a direction, with the given set of Shift keys
KeysOf(d, shift) ==
    CASE d = "amount_forward"  -> {"W", "Up"}
      [] d = "amount_backward" -> {"S", "Down"}
      [] d = "amount_left"     -> {"A", "Left"}
      [] d = "amount_right"    -> {"D", "Right"}
      [] d = "amount_up"       -> {"Space"}
      [] d = "amount_down"     -> shift

Bound(shift) == UNION { KeysOf(d, shift) : d \in Directions }

LeftShift == {"LShift"}

BothShifts == {"LShift", "RShift"}

\* the unit vector of a direction for a camera facing yaw
Axis(d, yaw) ==
    LET forward == Normalize(<<Cos(yaw), 0, Sin(yaw)>>)
        right   == Normalize(<<-Sin(yaw), 0, Cos(yaw)>>)
    IN  CASE d = "amount_forward"  -> forward
          [] d = "amount_backward" -> VNeg(forward)
          [] d = "amount_right"    -> right
          [] d = "amount_left"     -> VNeg(right)
          [] d = "amount_up"       -> UnitY
          [] d = "amount_down"     -> VNeg(UnitY)

\* how far (in length steps) the step from camera to camera' carries the
\* camera along direction d
Along(d) == Dot(VAdd(camera'.position, VNeg(camera.position)), Axis(d, camera.yaw))

\* the same, the scroll displacement of the frame taken out
AlongWithoutScroll(d, dt) ==
    Dot(VAdd(VAdd(camera'.position, VNeg(camera.position)),
             VNeg(ScrollStep(camera, controller, dt))),
        Axis(d, camera.yaw))

\* equal up to the rounding of three fixed-point products
Near(x, y) == Abs(x - y) <= 3

IsKey == last'.op = "process_keyboard"

IsUpdate == last'.op = "update"

InitPosition == <<0, 5 * Unit, 10 * Unit>>

---------------------------------------------------------------------------
(* C1.  As claimed: once a direction key is pressed, every update_camera   *)
(* with dt > 0 leaves the direction's accumulator at 1.0 and moves the     *)
(* camera in that direction.                                               *)
C1_AsClaimed ==
    [][IsUpdate /\ last'.x > 0 =>
         \A d \in Directions :
             controller[d] = 1 => controller'[d] = 1 /\ Along(d) > 0]_vars

(* C1, amended.  Directional input is level-triggered: an accumulator      *)
(* changes only in a process_keyboard call for one of its keys, which      *)
(* sets it to 1 on press and to 0 on release at once; every update_camera  *)
(* leaves all six as they are and displaces the camera, scroll apart, by   *)
(* (accumulator - opposite accumulator) * speed * dt along each direction: *)
(* a held direction moves the camera each frame unless the opposite one    *)
(* is held too, a released one contributes nothing from the next frame on. *)
C1_LevelTriggered ==
    [][/\ \A d \in Directions :
            controller'[d] # controller[d] =>
                IsKey /\ last'.key \in KeysOf(d, LeftShift)
       /\ IsKey =>
            \A d \in Directions :
                last'.key \in KeysOf(d, LeftShift) =>
                    controller'[d] = IF last'.state = Pressed THEN 1 ELSE 0
       /\ IsUpdate =>
            \A d \in Directions :
                /\ controller'[d] = controller[d]
                /\ Near(AlongWithoutScroll(d, last'.x),
                        (controller[d] - controller[Opp(d)]) * controller.speed * last'.x)
                /\ (last'.x > 0 /\ controller[d] = 1 /\ controller[Opp(d)] = 0
                        /\ controller.scroll = 0) => Along(d) > 0
      ]_vars

\* forward is held through a second frame with no input in between, and
\* the camera has moved
C1_Witness ==
    /\ last.op = "update" /\ last.x > 0 /\ quiet = 2
    /\ controller.amount_forward = 1 /\ controller.amount_backward = 0
    /\ camera.position # InitPosition

(* C2.  Rotation and scroll are one-shot: every update_camera ends with    *)
(* rotate_horizontal, rotate_vertical and scroll at 0, and an update that  *)
(* directly follows another update leaves yaw and pitch as they are and    *)
(* displaces the camera by the directional accumulators alone.             *)
C2_OneShot ==
    [][IsUpdate =>
         /\ controller'.rotate_horizontal = 0
         /\ controller'.rotate_vertical = 0
         /\ controller'.scroll = 0
         /\ quiet >= 1 =>
              /\ camera'.yaw = camera.yaw
              /\ camera'.pitch = camera.pitch
              /\ camera'.position =
                    VAdd(VAdd(camera.position, PlanarStep(camera, controller, last'.x)),
                         VerticalStep(controller, last'.x))
      ]_vars

\* two updates in a row after pointer input: the first one turned the camera
C2_Witness ==
    /\ last.op = "update" /\ last.x > 0 /\ quiet = 2
    /\ camera.yaw # -FRAC_PI_2

(* C3.  After every update_camera the pitch lies within                    *)
(* [-pi/2 + eps, pi/2 + eps], eps = 0.0001 (one angle step).               *)
C3_PitchClamp ==
    last.op = "update" =>
        /\ camera.pitch >= -FRAC_PI_2 + 1
        /\ camera.pitch <= FRAC_PI_2 + 1

\* a large upward pointer delta has driven the pitch into the clamp
C3_Witness == last.op = "update" /\ camera.pitch = SAFE_FRAC_PI_2

(* C4.  The primitive collection keeps the length given to new(), whatever *)
(* closure update_primitives is handed.                                    *)
C4_FixedArity == Len(primitives) = capacity

(* C5.  After construction and after every update_primitives or update     *)
(* call that returns, the GPU buffer holds the serialized collection.      *)
C5_BufferInSync == ~crashed => prim_buffer = CastSlice(primitives)

(* C6.  As claimed, with "Shift" read as either Shift key.                 *)
C6_AsClaimed ==
    [][IsKey =>
         /\ last'.ret = (last'.key \in Bound(BothShifts))
         /\ \A d \in Directions :
              last'.key \in KeysOf(d, BothShifts) =>
                  controller' = [controller EXCEPT
                                    ![d] = IF last'.state = Pressed THEN 1 ELSE 0]
         /\ last'.key \notin Bound(BothShifts) => controller' = controller
      ]_vars

(* C6, amended.  process_keyboard returns true exactly for W/Up (forward), *)
(* S/Down (backward), A/Left (left), D/Right (right), Space (up) and the   *)
(* left Shift key (down); it then sets only the matching accumulator, to 1 *)
(* on press and 0 on release.  For every other key, the right Shift key    *)
(* included, it returns false and leaves the controller as it is.  The     *)
(* camera, the uniform and the buffer are untouched in both cases.         *)
C6_Keyboard ==
    [][IsKey =>
         /\ last'.ret = (last'.key \in Bound(LeftShift))
         /\ \A d \in Directions :
              last'.key \in KeysOf(d, LeftShift) =>
                  controller' = [controller EXCEPT
                                    ![d] = IF last'.state = Pressed THEN 1 ELSE 0]
         /\ last'.key \notin Bound(LeftShift) => controller' = controller
         /\ UNCHANGED <<camera, projection, uniform, buffer>>
      ]_vars

\* the right Shift key went down after W: not consumed, forward still set
C6_Witness ==
    /\ last.op = "process_keyboard" /\ last.key = "RShift" /\ last.state = Pressed
    /\ ~last.ret
    /\ controller.amount_forward = 1 /\ controller.amount_down = 0

(* C7.  When RenderCamera::update returns, the uniform is the one derived  *)
(* from the camera pose after this frame's integration, and the buffer     *)
(* holds the words of that uniform.                                        *)
C7_UniformAfterIntegration ==
    last.op = "update" =>
        /\ uniform = update_view_proj(camera, projection)
        /\ buffer = CastUniform(uniform)

\* a frame that moved the camera
C7_Witness ==
    /\ last.op = "update" /\ last.x > 0
    /\ controller.amount_forward = 1 /\ controller.amount_backward = 0
    /\ uniform.view_position # <<0, 5 * Unit, 10 * Unit, Unit>>

(* C8.  resize changes the viewport dimensions of the projection and       *)
(* nothing else; the uniform and the buffer take the new dimensions up in  *)
(* the next update.                                                        *)
C8_ResizeIsLazy ==
    [][/\ last'.op = "resize" =>
            /\ projection' = [projection EXCEPT !.pixels = <<last'.x, last'.y>>]
            /\ UNCHANGED <<camera, controller, uniform, buffer>>
       /\ IsUpdate =>
            /\ projection' = projection
            /\ uniform'.world_to_screen =
                  MatMul(Projection_calc_matrix(projection), Camera_calc_matrix(camera'))
            /\ buffer' = CastUniform(uniform')
      ]_vars

\* the viewport has a new aspect ratio that the uniform does not show yet
C8_Witness ==
    /\ last.op = "resize"
    /\ projection.pixels = <<1280, 720>>
    /\ uniform.world_to_screen[1] #
          update_view_proj(camera, projection).world_to_screen[1]

(* C9.  process_mouse overwrites: after each call the stored deltas are    *)
(* the call's arguments (as f32), and an update_camera that follows a      *)
(* process_mouse call turns the camera by that call's deltas alone.        *)
C9_MouseOverwrites ==
    [][/\ last'.op = "process_mouse" =>
            controller' = [controller EXCEPT !.rotate_horizontal = F32(last'.x),
                                             !.rotate_vertical = F32(last'.y)]
       /\ (IsUpdate /\ last.op = "process_mouse") =>
            /\ camera'.yaw = camera.yaw + Turn(F32(last.x), controller, last'.x)
            /\ camera'.pitch =
                  ClampPitch(camera.pitch + Turn(-F32(last.y), controller, last'.x))
      ]_vars

\* an update that consumed the second of two pointer deltas of one frame
C9_Witness ==
    /\ last.op = "update" /\ last.x > 0 /\ last.y = 2
    /\ camera.yaw # -FRAC_PI_2

(* C10.  The keys of a direction share one accumulator and nothing counts  *)
(* the keys held: the accumulator is 0 or 1, it is what the latest event   *)
(* of any of the direction's keys set, so a release zeroes it while the    *)
(* other key is still down, and update_camera then applies no motion of    *)
(* that direction.                                                         *)
C10_SharedAccumulator ==
    [][/\ \A d \in Directions : controller'[d] \in {0, 1}
       /\ \A d \in Directions :
            IF IsKey /\ last'.key \in KeysOf(d, LeftShift)
            THEN controller'[d] = IF last'.state = Pressed THEN 1 ELSE 0
            ELSE controller'[d] = controller[d]
       /\ IsUpdate =>
            \A d \in Directions :
                (controller[d] = 0 /\ controller[Opp(d)] = 0) =>
                    Near(AlongWithoutScroll(d, last'.x), 0)
      ]_vars

\* W is still down, Up was released, and the frame did not move the camera
C10_Witness ==
    /\ last.op = "update" /\ last.x > 0
    /\ "W" \in held /\ "Up" \notin held
    /\ controller.amount_forward = 0
    /\ camera.position = InitPosition

====
